---- MODULE Spec2Model ----
(***************************************************************************)
(* A model of the DNS wire codec (names with compression pointers,         *)
(* header, question, record, packet), of the iterative resolver Resolve /  *)
(* ResolveDomain, of the query server Serve, of LookupDomain and of the    *)
(* byte streams they read from.                                             *)
(*                                                                         *)
(* A byte is a number 0..255, a []byte a sequence of bytes, a Go string a  *)
(* sequence of character codes.  A stream offset o is index o+1 of a       *)
(* sequence.                                                                *)
(***************************************************************************)
EXTENDS Integers, Sequences, FiniteSets, TLC

\* ------------------------------------------------------------------ bounds

\* Longest name (in bytes) drawn over the small alphabet.
MaxNameLen == 3
\* Longest raw byte string drawn as a message to decode names from.
MaxBufLen == 4
\* Deepest nesting of Resolve calls (outer call plus nested NS resolutions).
MaxDepth == 2
\* Largest header count written in front of a message with fewer or more
\* entries.
MaxCount == 2

\* ------------------------------------------------------- program constants

TypeA == 1
TypeNS == 2
TypeTXT == 16
ClassIN == 1
FlagRecusion == 256
\* 0b1100_0000: the bits DecodeName tests on a lead byte.
PointerBits == 192
\* 0b0011_1111: the bits DecodeCompressedName keeps of the lead byte.
OffsetBits == 63
\* '.'
Dot == 46

\* ------------------------------------------------------------------- bytes

Byte == 0..255

RECURSIVE BitAnd(_, _)
BitAnd(a, b) ==
  IF a = 0 \/ b = 0 THEN 0
  ELSE (a % 2) * (b % 2) + 2 * BitAnd(a \div 2, b \div 2)

\* binary.BigEndian, 16 and 32 bits (U16 keeps the low 16 bits of n, so
\* U32 the low 32; the model's 32-bit values stay below 2^31).
U16(n) == << (n % 65536) \div 256, n % 256 >>
U32(n) == U16(n \div 65536) \o U16(n % 65536)
GetU16(s, off) == s[off + 1] * 256 + s[off + 2]
GetU32(s, off) == GetU16(s, off) * 65536 + GetU16(s, off + 2)

\* s[from:] and s[from:to] of Go.
From(s, from) == SubSeq(s, from + 1, Len(s))
Slice(s, from, to) == SubSeq(s, from + 1, to)

\* n bytes b.
Rep(b, n) == [i \in 1..n |-> b]

RECURSIVE Flatten(_)
Flatten(ss) == IF ss = << >> THEN << >> ELSE Head(ss) \o Flatten(Tail(ss))

\* ------------------------------------------------------------------- names

\* bytes.Split(name, "."): always at least one part.
RECURSIVE Split(_)
Split(s) ==
  IF \A i \in 1..Len(s) : s[i] # Dot THEN << s >>
  ELSE LET i == CHOOSE k \in 1..Len(s) :
                  s[k] = Dot /\ \A j \in 1..(k - 1) : s[j] # Dot
       IN  << SubSeq(s, 1, i - 1) >> \o Split(SubSeq(s, i + 1, Len(s)))

\* One label as EncodeName emits it: byte(len(part)), then the part.
EncodeLabel(part) == << Len(part) % 256 >> \o part

EncodeName(name) ==
  LET parts == Split(name)
  IN  Flatten([i \in 1..Len(parts) |-> EncodeLabel(parts[i])]) \o << 0 >>

\* The readers of the program.  "bytes": bufio over a bytes.Reader or
\* strings.Reader, which ends in io.EOF.  "seek": bufio over the
\* SeekBuffer, whose Read returns (0, nil) at its end.  "conn": bufio over
\* the tee of a UDP connection, whose Read waits for the next datagram.
ReadByteErr(kind) ==
  CASE kind = "bytes" -> "EOF"
    [] kind = "seek" -> "ErrNoProgress"
    [] kind = "conn" -> "Block"

\* io.ReadFull(r, p) with fewer than len(p) bytes left, `have` of them.
ReadFullErr(kind, have) ==
  CASE kind = "bytes" -> IF have = 0 THEN "EOF" ELSE "ErrUnexpectedEOF"
    [] kind = "seek" -> "Hang"
    [] kind = "conn" -> "Block"

\* The io.ReadSeeker handed to a decode: nil, or a SeekBuffer holding data.
NoSeeker == [nil |-> TRUE, data |-> << >>]
Seeker(data) == [nil |-> FALSE, data |-> data]

DecodeOK(name, pos) == [err |-> "nil", name |-> name, pos |-> pos]
DecodeFail(e, pos) == [err |-> e, name |-> << >>, pos |-> pos]

\* AppendPart without the separator.
AppendPartNoDot(name, part) == name \o part

\* if len(name) > 0 { name = append(name, '.') }; name = append(name, part...)
AppendPart(name, part) ==
  IF Len(name) > 0 THEN name \o << Dot >> \o part ELSE name \o part

\* Seek without the upper bound.
SeekOKNoUpper(data, offset) == ~(offset < 0)

\* SeekBuffer.Seek(offset, 0) on a buffer holding `data`.
SeekOK(data, offset) == ~(offset < 0 \/ offset >= Len(data))

\* The pointer with the lead byte's top bits left in.
PointerNoMask(length, b) == length * 256 + b

\* binary.BigEndian.Uint16([]byte{length & 0b0011_1111, b})
Pointer(length, b) == BitAnd(length, OffsetBits) * 256 + b

\* DecodeName(r, rs) reading stream s of the given kind from offset pos,
\* with `name` what the loop has appended so far.  rs is the seeker.
\* chain is the set of offsets the enclosing
\* DecodeCompressedName calls have jumped to: the decode of (rs, offset) is
\* a function of its arguments, so a jump to an offset of the chain
\* re-enters the same call and the recursion has no end ("StackOverflow",
\* a fatal error of the Go runtime, not a returned error).
RECURSIVE DecodeLoop(_, _, _, _, _, _)

\* The reader r left before the pointer's second byte.
JumpedOneByteShort(sub, pos) ==
  IF sub.err # "nil" THEN DecodeFail(sub.err, pos - 1)
  ELSE DecodeOK(sub.name, pos - 1)

\* DecodeCompressedName once the nested DecodeName has returned sub: the
\* reader r stands after the pointer's second byte, at pos.
Jumped(sub, pos) ==
  IF sub.err # "nil" THEN DecodeFail(sub.err, pos) ELSE DecodeOK(sub.name, pos)

DecodeCompressedName(s, kind, pos, rs, length, chain) ==
  IF rs.nil THEN DecodeFail("NoSeeker", pos)
  ELSE IF pos >= Len(s) THEN DecodeFail(ReadByteErr(kind), pos)
  ELSE IF ~SeekOK(rs.data, Pointer(length, s[pos + 1]))
  THEN DecodeFail("SeekOutOfBounds", pos + 1)
  ELSE IF Pointer(length, s[pos + 1]) \in chain
  THEN DecodeFail("StackOverflow", pos + 1)
  ELSE Jumped(DecodeLoop(rs.data, "seek", Pointer(length, s[pos + 1]), << >>, rs,
                         chain \cup {Pointer(length, s[pos + 1])}),
              pos + 1)

\* DecodeName's pointer branch once DecodeCompressedName has returned part.
AfterPointer(name, part) ==
  IF part.err # "nil" THEN part
  ELSE DecodeOK(AppendPart(name, part.name), part.pos)

DecodeLoop(s, kind, pos, name, rs, chain) ==
  IF pos >= Len(s) THEN DecodeFail(ReadByteErr(kind), pos)
  ELSE IF s[pos + 1] = 0 THEN DecodeOK(name, pos + 1)
  ELSE IF BitAnd(s[pos + 1], PointerBits) # 0
  THEN AfterPointer(name,
                    DecodeCompressedName(s, kind, pos + 1, rs, s[pos + 1], chain))
  ELSE IF pos + 1 + s[pos + 1] > Len(s)
  THEN DecodeFail(ReadFullErr(kind, Len(s) - (pos + 1)), Len(s))
  ELSE DecodeLoop(s, kind, pos + 1 + s[pos + 1],
                  AppendPart(name, Slice(s, pos + 1, pos + 1 + s[pos + 1])),
                  rs, chain)

DecodeName(s, kind, pos, rs) == DecodeLoop(s, kind, pos, << >>, rs, {})

\* ------------------------------------------------- header, question, record

MkHeader(id, flags, nq, nan, nau, nad) ==
  [ID |-> id, Flags |-> flags, NumQuestions |-> nq, NumAnswers |-> nan,
   NumAuthorities |-> nau, NumAdditionals |-> nad]

\* The zero values of Go.
ZeroHeader == MkHeader(0, 0, 0, 0, 0, 0)
ZeroRecord == [Name |-> << >>, Type |-> 0, Class |-> 0, TTL |-> 0, Data |-> << >>]
ZeroPacket ==
  [Header |-> ZeroHeader, Questions |-> << >>, Answers |-> << >>,
   Authorities |-> << >>, Additionals |-> << >>]

\* The header with the question and answer counts in each other's place.
HeaderEncodeSwapped(h) ==
  U16(h.ID) \o U16(h.Flags) \o U16(h.NumAnswers) \o U16(h.NumQuestions)
    \o U16(h.NumAuthorities) \o U16(h.NumAdditionals)

\* binary.Write(&buf, binary.BigEndian, h): the fields in declaration order.
HeaderEncode(h) ==
  U16(h.ID) \o U16(h.Flags) \o U16(h.NumQuestions) \o U16(h.NumAnswers)
    \o U16(h.NumAuthorities) \o U16(h.NumAdditionals)

\* binary.Read of a fixed-size struct of n bytes: io.ReadFull of n bytes.
FixedErr(s, kind, pos, n) ==
  IF pos + n <= Len(s) THEN "nil" ELSE ReadFullErr(kind, Len(s) - pos)

HeaderDecode(s, kind, pos) ==
  LET e == FixedErr(s, kind, pos, 12)
  IN  IF e # "nil" THEN [err |-> e, val |-> ZeroHeader, pos |-> Len(s)]
      ELSE [err |-> "nil",
            val |-> MkHeader(GetU16(s, pos), GetU16(s, pos + 2), GetU16(s, pos + 4),
                             GetU16(s, pos + 6), GetU16(s, pos + 8), GetU16(s, pos + 10)),
            pos |-> pos + 12]

QuestionEncode(q) == EncodeName(q.Name) \o U16(q.Type) \o U16(q.Class)

\* Question.Decode once DecodeName has returned nm.
QuestionFields(s, kind, nm) ==
  IF nm.err # "nil" THEN [err |-> nm.err, val |-> << >>, pos |-> nm.pos]
  ELSE IF FixedErr(s, kind, nm.pos, 4) # "nil"
  THEN [err |-> FixedErr(s, kind, nm.pos, 4), val |-> << >>, pos |-> Len(s)]
  ELSE [err |-> "nil",
        val |-> [Name |-> nm.name, Type |-> GetU16(s, nm.pos),
                 Class |-> GetU16(s, nm.pos + 2)],
        pos |-> nm.pos + 4]

QuestionDecode(s, kind, pos, rs) ==
  QuestionFields(s, kind, DecodeName(s, kind, pos, rs))

RecordEncode(r) ==
  LET data == IF r.Type = TypeNS THEN EncodeName(r.Data) ELSE r.Data
  IN  EncodeName(r.Name) \o U16(r.Type) \o U16(r.Class) \o U32(r.TTL)
        \o U16(Len(data)) \o data

\* Record.Decode of an NS record once its Data (ending at offset end) has
\* been decoded as the name ns.
RecordNS(rec, end, ns) ==
  IF ns.err # "nil" THEN [err |-> ns.err, val |-> ZeroRecord, pos |-> end]
  ELSE [err |-> "nil", val |-> [rec EXCEPT !.Data = ns.name], pos |-> end]

\* Record.Decode once the name and the fixed fields are read: rec holds
\* them, the Data of dataLen bytes starts at dpos.
RecordData(s, kind, rs, rec, dpos, dataLen) ==
  IF FixedErr(s, kind, dpos, dataLen) # "nil"
  THEN [err |-> FixedErr(s, kind, dpos, dataLen), val |-> ZeroRecord, pos |-> Len(s)]
  ELSE IF rec.Type = TypeNS
  THEN RecordNS(rec, dpos + dataLen,
                DecodeName(Slice(s, dpos, dpos + dataLen), "bytes", 0, rs))
  ELSE [err |-> "nil", val |-> [rec EXCEPT !.Data = Slice(s, dpos, dpos + dataLen)],
        pos |-> dpos + dataLen]

\* Record.Decode once DecodeName has returned nm.
RecordFields(s, kind, rs, nm) ==
  IF nm.err # "nil" THEN [err |-> nm.err, val |-> ZeroRecord, pos |-> nm.pos]
  ELSE IF FixedErr(s, kind, nm.pos, 10) # "nil"
  THEN [err |-> FixedErr(s, kind, nm.pos, 10), val |-> ZeroRecord, pos |-> Len(s)]
  ELSE RecordData(s, kind, rs,
                  [Name |-> nm.name, Type |-> GetU16(s, nm.pos),
                   Class |-> GetU16(s, nm.pos + 2), TTL |-> GetU32(s, nm.pos + 4),
                   Data |-> << >>],
                  nm.pos + 10, GetU16(s, nm.pos + 8))

RecordDecode(s, kind, pos, rs) ==
  RecordFields(s, kind, rs, DecodeName(s, kind, pos, rs))

\* ------------------------------------------------------------------ packet

\* One of Packet.Decode's four loops: n more entries appended to acc.
RECURSIVE DecodeQuestions(_, _, _, _, _, _)
QuestionsNext(s, kind, rs, n, acc, q) ==
  IF q.err # "nil" THEN [err |-> q.err, val |-> acc, pos |-> q.pos]
  ELSE DecodeQuestions(s, kind, q.pos, rs, n - 1, Append(acc, q.val))

DecodeQuestions(s, kind, pos, rs, n, acc) ==
  IF n = 0 THEN [err |-> "nil", val |-> acc, pos |-> pos]
  ELSE QuestionsNext(s, kind, rs, n, acc, QuestionDecode(s, kind, pos, rs))

RECURSIVE DecodeRecords(_, _, _, _, _, _)
RecordsNext(s, kind, rs, n, acc, r) ==
  IF r.err # "nil" THEN [err |-> r.err, val |-> acc, pos |-> r.pos]
  ELSE DecodeRecords(s, kind, r.pos, rs, n - 1, Append(acc, r.val))

\* The loop with its counter started at 1.
DecodeRecordsFromOne(s, kind, pos, rs, n, acc) ==
  IF n <= 1 THEN [err |-> "nil", val |-> acc, pos |-> pos]
  ELSE RecordsNext(s, kind, rs, n, acc, RecordDecode(s, kind, pos, rs))

DecodeRecords(s, kind, pos, rs, n, acc) ==
  IF n = 0 THEN [err |-> "nil", val |-> acc, pos |-> pos]
  ELSE RecordsNext(s, kind, rs, n, acc, RecordDecode(s, kind, pos, rs))

\* p.Decode(r, rs) on a zero Packet, loop after loop: p is *p so far, and
\* pkt is *p when Decode returns, filled as far as the decode got.
AfterAdditionals(p, ad) ==
  [err |-> ad.err, pkt |-> [p EXCEPT !.Additionals = ad.val], pos |-> ad.pos]

AfterAuthorities(s, kind, rs, p, au) ==
  IF au.err # "nil"
  THEN [err |-> au.err, pkt |-> [p EXCEPT !.Authorities = au.val], pos |-> au.pos]
  ELSE AfterAdditionals([p EXCEPT !.Authorities = au.val],
                        DecodeRecords(s, kind, au.pos, rs,
                                      p.Header.NumAdditionals, << >>))

AfterAnswers(s, kind, rs, p, an) ==
  IF an.err # "nil"
  THEN [err |-> an.err, pkt |-> [p EXCEPT !.Answers = an.val], pos |-> an.pos]
  ELSE AfterAuthorities(s, kind, rs, [p EXCEPT !.Answers = an.val],
                        DecodeRecords(s, kind, an.pos, rs,
                                      p.Header.NumAuthorities, << >>))

AfterQuestions(s, kind, rs, p, qs) ==
  IF qs.err # "nil"
  THEN [err |-> qs.err, pkt |-> [p EXCEPT !.Questions = qs.val], pos |-> qs.pos]
  ELSE AfterAnswers(s, kind, rs, [p EXCEPT !.Questions = qs.val],
                    DecodeRecords(s, kind, qs.pos, rs, p.Header.NumAnswers, << >>))

AfterHeader(s, kind, rs, h) ==
  IF h.err # "nil" THEN [err |-> h.err, pkt |-> ZeroPacket, pos |-> h.pos]
  ELSE AfterQuestions(s, kind, rs, [ZeroPacket EXCEPT !.Header = h.val],
                      DecodeQuestions(s, kind, h.pos, rs, h.val.NumQuestions, << >>))

PacketDecode(s, kind, rs) == AfterHeader(s, kind, rs, HeaderDecode(s, kind, 0))

EncodeAll(Enc(_), xs) == Flatten([i \in 1..Len(xs) |-> Enc(xs[i])])

PacketEncode(p) ==
  HeaderEncode(p.Header) \o EncodeAll(QuestionEncode, p.Questions)
    \o EncodeAll(RecordEncode, p.Answers) \o EncodeAll(RecordEncode, p.Authorities)
    \o EncodeAll(RecordEncode, p.Additionals)

\* FindRecord(recs, typ): the first record of that type, or the zero Record.
HasRecord(recs, typ) == \E i \in 1..Len(recs) : recs[i].Type = typ

\* The last record of that type instead of the first.
FindLastRecord(recs, typ) ==
  IF HasRecord(recs, typ)
  THEN recs[CHOOSE i \in 1..Len(recs) :
              recs[i].Type = typ /\ \A j \in (i + 1)..Len(recs) : recs[j].Type # typ]
  ELSE ZeroRecord

FindRecord(recs, typ) ==
  IF HasRecord(recs, typ)
  THEN recs[CHOOSE i \in 1..Len(recs) :
              recs[i].Type = typ /\ \A j \in 1..(i - 1) : recs[j].Type # typ]
  ELSE ZeroRecord

\* The query with its question's Class left zero.
BuildQueryNoClass(id, domain, typ, flags) ==
  [ZeroPacket EXCEPT
     !.Header = MkHeader(id, flags, 1, 0, 0, 0),
     !.Questions = << [Name |-> domain, Type |-> typ, Class |-> 0] >>]

\* The query with the recursion-desired flag always set.
BuildQueryWithRD(id, domain, typ, flags) ==
  [ZeroPacket EXCEPT
     !.Header = MkHeader(id, FlagRecusion, 1, 0, 0, 0),
     !.Questions = << [Name |-> domain, Type |-> typ, Class |-> ClassIN] >>]

BuildQuery(id, domain, typ, flags) ==
  [ZeroPacket EXCEPT
     !.Header = MkHeader(id, flags, 1, 0, 0, 0),
     !.Questions = << [Name |-> domain, Type |-> typ, Class |-> ClassIN] >>]

\* strconv.Itoa of a byte, as character codes.
RECURSIVE Itoa(_)
Itoa(n) == IF n < 10 THEN << 48 + n >> ELSE Itoa(n \div 10) \o << 48 + (n % 10) >>

\* strings.Join(parts, ".")
RECURSIVE JoinDots(_)
JoinDots(parts) ==
  IF parts = << >> THEN << >>
  ELSE IF Len(parts) = 1 THEN parts[1]
  ELSE parts[1] \o << Dot >> \o JoinDots(Tail(parts))

ParseIP(data) == JoinDots([i \in 1..Len(data) |-> Itoa(data[i])])

\* net.JoinHostPort(host, "53"): a host with a ':' or '%' goes in brackets.
Port53 == << 58, 53, 51 >>
JoinHostPort53(host) ==
  IF \E i \in 1..Len(host) : host[i] \in {58, 37}
  THEN << 91 >> \o host \o << 93 >> \o Port53
  ELSE host \o Port53

\* ------------------------------------------------------------------- state

VARIABLES
  \* The call stack of Resolve: one frame per running call, the outer first.
  stack,
  \* The UDP exchange of the running SendQuery.
  net,
  \* What the Resolve call that returned last returned.
  ret,
  \* The value handed to the codec, and what the codec made of it.
  cin, cout,
  \* The Query Server: where Serve stands, the query it works on and the
  \* reply it wrote last.
  srv,
  \* The running LookupDomain call and what it returned.
  lk

vars == << stack, net, ret, cin, cout, srv, lk >>

\* Serve is not running; no LookupDomain call has been made.
NoReply == [to |-> << >>, data |-> << >>]
ServeOff ==
  [pc |-> "off", err |-> "nil", from |-> << >>, query |-> << >>, reply |-> NoReply]
LookupOff ==
  [pc |-> "off", addr |-> << >>, domain |-> << >>, err |-> "nil", ip |-> << >>]

\* No exchange yet, and no call returned yet.
NetIdle ==
  [state |-> "idle", to |-> << >>, query |-> << >>, data |-> << >>, first |-> 0]
RetNone == [state |-> "none", err |-> "nil", pkt |-> ZeroPacket]

\* ------------------------------------------------------------ codec inputs

SeqsUpTo(S, n) == UNION {[1..k -> S] : k \in 0..n}

\* The longest plain label: a length byte with none of PointerBits set.
MaxLabel == OffsetBits

NameBytes == {97, 98, Dot}
LongNames ==
  {Rep(97, MaxLabel), Rep(97, MaxLabel + 1), Rep(97, MaxLabel) \o << Dot, 98 >>,
   << 98, Dot >> \o Rep(97, MaxLabel + 1)}
Names == SeqsUpTo(NameBytes, MaxNameLen) \cup LongNames

Labels(name) == {Split(name)[i] : i \in 1..Len(Split(name))}

\* A name of one or more labels of 1..MaxLabel bytes each.
WellFormed(name) == \A l \in Labels(name) : Len(l) >= 1 /\ Len(l) <= MaxLabel

RawBytes == {0, 1, 2, 97, PointerBits}
RawBufs == SeqsUpTo(RawBytes, MaxBufLen)

Ip1 == << 10, 0, 0, 1 >>
Ip2 == << 192, 168, 1, 255 >>
NameA == << 97 >>
NameAB == << 97, Dot, 98 >>
NameNs == << 110, 115 >>
RootName == << >>

Question(name, typ) == [Name |-> name, Type |-> typ, Class |-> ClassIN]
Rec(name, typ, ttl, data) ==
  [Name |-> name, Type |-> typ, Class |-> ClassIN, TTL |-> ttl, Data |-> data]

MkPacket(id, flags, qs, an, au, ad) ==
  [Header |-> MkHeader(id, flags, Len(qs), Len(an), Len(au), Len(ad)),
   Questions |-> qs, Answers |-> an, Authorities |-> au, Additionals |-> ad]

QLists == {<< >>, << Question(NameAB, TypeA) >>, << Question(RootName, TypeNS) >>}
RecLists ==
  {<< >>,
   << Rec(NameA, TypeA, 60, Ip1) >>,
   << Rec(NameAB, TypeNS, 70000, NameNs) >>,
   << Rec(NameA, TypeTXT, 0, << 1, 97 >>), Rec(NameNs, TypeA, 60, Ip2) >>,
   << Rec(RootName, TypeNS, 60, NameA) >>}
Packets ==
  {MkPacket(4660, f, qs, an, au, ad) :
     f \in {0}, qs \in QLists, an \in RecLists, au \in RecLists, ad \in RecLists}

\* Offsets a name is stored at in a message with a pointer to it.
NameOffsets == {0, 12, 300}
\* Plain labels read before the pointer.
Prefixes == {<< >>, << << 98 >> >>, << << 98 >>, << 97, 97 >> >>}

CodecIn(op, name, pkt, buf, pos, pre, rs, kind) ==
  [op |-> op, name |-> name, pkt |-> pkt, buf |-> buf, pos |-> pos, pre |-> pre,
   rs |-> rs, kind |-> kind, hdr |-> ZeroHeader, id |-> 0, typ |-> 0, flags |-> 0]

NameInputs ==
  {CodecIn("name", n, ZeroPacket, << >>, 0, << >>, FALSE, "bytes") : n \in Names}
PacketInputs ==
  {CodecIn("packet", << >>, p, << >>, 0, << >>, TRUE, k) :
     p \in Packets, k \in {"bytes", "conn"}}
PtrInputs ==
  {CodecIn("ptr", n, ZeroPacket, << >>, k, pre, TRUE, "bytes") :
     n \in {m \in Names : Len(m) <= MaxNameLen}, k \in NameOffsets, pre \in Prefixes}
RawInputs ==
  {in \in {CodecIn("raw", << >>, ZeroPacket, b, pos, << >>, rs, k) :
              b \in RawBufs, pos \in 0..MaxBufLen, rs \in BOOLEAN,
              k \in {"bytes", "conn"}} :
     in.pos <= Len(in.buf)}

\* "example.com"
ExampleCom == << 101, 120, 97, 109, 112, 108, 101, Dot, 99, 111, 109 >>

\* The arguments of a BuildQuery call.
QueryIn(id, domain, typ, flags) ==
  [CodecIn("query", domain, ZeroPacket, << >>, 0, << >>, FALSE, "bytes") EXCEPT
     !.id = id, !.typ = typ, !.flags = flags]
QueryInputs ==
  {QueryIn(id, d, t, f) :
     id \in {0, 17611, 65535}, d \in {RootName, NameA, NameAB, ExampleCom},
     t \in {TypeA, TypeNS, 65535}, f \in {0, FlagRecusion, 65535}}

\* Headers, each field over the ends of uint16 and two values between.
FieldValues == {0, 1, 4884, 65535}
Headers ==
  {MkHeader(id, fl, nq, nan, nau, nad) :
     id \in FieldValues, fl \in FieldValues, nq \in FieldValues,
     nan \in FieldValues, nau \in FieldValues, nad \in FieldValues}
HeaderInputs ==
  {[CodecIn("header", << >>, ZeroPacket, << >>, 0, << >>, FALSE, "bytes") EXCEPT
      !.hdr = h] : h \in Headers}

\* Messages whose header counts are not the numbers of entries that follow:
\* a question, two answers, an authority and an additional behind every
\* header with counts up to MaxCount.
FullPacket ==
  MkPacket(4660, 0, << Question(NameAB, TypeA) >>,
           << Rec(NameA, TypeA, 60, Ip1), Rec(NameAB, TypeTXT, 0, << 1, 97 >>) >>,
           << Rec(NameAB, TypeNS, 70000, NameNs) >>,
           << Rec(NameNs, TypeA, 60, Ip2) >>)
WithCounts(p, nq, nan, nau, nad) ==
  [p EXCEPT !.Header = MkHeader(p.Header.ID, p.Header.Flags, nq, nan, nau, nad)]
WireInputs ==
  {CodecIn("wire", << >>, ZeroPacket,
           PacketEncode(WithCounts(FullPacket, nq, nan, nau, nad)), 0, << >>, TRUE, k) :
     nq \in 0..MaxCount, nan \in 0..MaxCount, nau \in 0..MaxCount,
     nad \in 0..MaxCount, k \in {"bytes", "conn"}}

\* Names that start, at once or after a plain label, with a lead byte whose
\* top two bits are 01 or 10, followed by the name "a".
OddLeads == {64, 65, 128, 191}
LeadBufs ==
  {<< b, 2, 1, 97, 0 >> : b \in OddLeads}
    \cup {<< 1, 98, b, 4, 1, 97, 0 >> : b \in OddLeads}
LeadInputs ==
  {CodecIn("raw", << >>, ZeroPacket, b, 0, << >>, rs, "bytes") :
     b \in LeadBufs, rs \in BOOLEAN}

NoName == DecodeFail("pending", 0)
NoPkt == [err |-> "pending", pkt |-> ZeroPacket, pos |-> 0]
NoHdr == [err |-> "pending", val |-> ZeroHeader, pos |-> 0]
CodecOut(stage, wire, dec, pdec) ==
  [stage |-> stage, wire |-> wire, dec |-> dec, pdec |-> pdec, hdec |-> NoHdr]

\* A message holding name n at offset k, then the plain labels pre and a
\* compression pointer to k.
PtrBytes(k) == << PointerBits + (k \div 256), k % 256 >>
PtrMessage(k, n, pre) ==
  Rep(97, k) \o EncodeName(n)
    \o Flatten([i \in 1..Len(pre) |-> EncodeLabel(pre[i])]) \o PtrBytes(k)
PtrPos(k, n, pre) == Len(PtrMessage(k, n, pre)) - 2

\* A message with three pointers to the question's name at offset 12: the
\* answer's owner, the authority's owner after the plain label "b", and the
\* end of the authority's NS data after the plain label "ns".
ThreePointers ==
  HeaderEncode(MkHeader(4660, 0, 1, 1, 1, 0))
    \o QuestionEncode(Question(NameA, TypeA))
    \o PtrBytes(12) \o U16(TypeA) \o U16(ClassIN) \o U32(60) \o U16(4) \o Ip1
    \o EncodeLabel(<< 98 >>) \o PtrBytes(12) \o U16(TypeNS) \o U16(ClassIN)
    \o U32(70000) \o U16(5) \o EncodeLabel(NameNs) \o PtrBytes(12)
PointerInputs ==
  {CodecIn("wire", << >>, ZeroPacket, ThreePointers, 0, << >>, TRUE, k) :
     k \in {"bytes", "conn"}}

\* ------------------------------------------------------------ codec actions

CodecIdle == CodecIn("idle", << >>, ZeroPacket, << >>, 0, << >>, FALSE, "bytes")

\* The seeker of a decode: the SeekBuffer over the message, or nil.
RsOf(in, wire) == IF in.rs THEN Seeker(wire) ELSE NoSeeker

EncodeStep ==
  /\ cout.stage = "input"
  /\ cin.op \in {"name", "packet", "ptr", "query", "header"}
  /\ cout' = [cout EXCEPT
       !.stage = "encoded",
       !.wire = CASE cin.op = "name" -> EncodeName(cin.name)
                  [] cin.op = "packet" -> PacketEncode(cin.pkt)
                  [] cin.op = "ptr" -> PtrMessage(cin.pos, cin.name, cin.pre)
                  [] cin.op = "query" ->
                       PacketEncode(BuildQuery(cin.id, cin.name, cin.typ, cin.flags))
                  [] cin.op = "header" -> HeaderEncode(cin.hdr)]
  /\ UNCHANGED << stack, net, ret, cin, srv, lk >>

\* Where the name to decode starts in the message.
StartPos ==
  CASE cin.op = "ptr" ->
         PtrPos(cin.pos, cin.name, cin.pre)
           - Len(Flatten([i \in 1..Len(cin.pre) |-> EncodeLabel(cin.pre[i])]))
    [] cin.op = "raw" -> cin.pos
    [] OTHER -> 0

DecodeNameStep ==
  /\ cout.stage = "encoded"
  /\ cin.op \in {"name", "ptr", "raw"}
  /\ cout' = [cout EXCEPT
       !.stage = "decoded",
       !.dec = DecodeName(cout.wire, cin.kind, StartPos, RsOf(cin, cout.wire))]
  /\ UNCHANGED << stack, net, ret, cin, srv, lk >>

DecodePacketStep ==
  /\ cout.stage = "encoded"
  /\ cin.op \in {"packet", "wire"}
  /\ cout' = [cout EXCEPT
       !.stage = "decoded",
       !.pdec = PacketDecode(cout.wire, cin.kind, RsOf(cin, cout.wire))]
  /\ UNCHANGED << stack, net, ret, cin, srv, lk >>

DecodeHeaderStep ==
  /\ cout.stage = "encoded"
  /\ cin.op = "header"
  /\ cout' = [cout EXCEPT
       !.stage = "decoded",
       !.hdec = HeaderDecode(cout.wire, cin.kind, 0)]
  /\ UNCHANGED << stack, net, ret, cin, srv, lk >>

CodecInit ==
  /\ cin \in NameInputs \cup PacketInputs \cup PtrInputs \cup RawInputs
              \cup QueryInputs \cup HeaderInputs \cup WireInputs \cup LeadInputs
              \cup PointerInputs
  /\ cout = IF cin.op \in {"raw", "wire"}
            THEN CodecOut("encoded", cin.buf, NoName, NoPkt)
            ELSE CodecOut("input", << >>, NoName, NoPkt)
  /\ stack = << >>
  /\ net = NetIdle
  /\ ret = RetNone
  /\ srv = ServeOff
  /\ lk = LookupOff

CodecNext == EncodeStep \/ DecodeNameStep \/ DecodePacketStep \/ DecodeHeaderStep

SpecCodec == CodecInit /\ [][CodecNext]_vars

\* ---------------------------------------------------------------- resolver

\* "198.41.0.4:53"
RootAddr == << 49, 57, 56, 46, 52, 49, 46, 48, 46, 52 >> \o Port53

\* A frame of Resolve: its question, its addr and where it stands: "send"
\* (about to BuildQuery and SendQuery), "wait" (inside SendQuery, the query
\* written) or "nested" (inside ResolveDomain for an NS target).
Frame(name, typ) == [name |-> name, type |-> typ, addr |-> RootAddr, pc |-> "send"]

Top == stack[Len(stack)]
SetTop(stk, f) == [stk EXCEPT ![Len(stk)] = f]
Pop(stk) == SubSeq(stk, 1, Len(stk) - 1)

RetOK(pkt) == [state |-> "ok", err |-> "nil", pkt |-> pkt]
RetErr(e) == [state |-> "err", err |-> e, pkt |-> ZeroPacket]

\* The questions Resolve is called with.
ResolveQuestions == {Question(NameA, TypeA), Question(NameA, TypeNS)}

\* rand.Intn(math.MaxUint16) of SendQuery, over two of its values.
QueryIDs == {0, 4660}

\* ------------------------------------------------------ the servers' replies

AnswerGlueNs ==
  MkPacket(4660, 0, << Question(NameA, TypeA) >>,
           << Rec(NameA, TypeA, 60, Ip1) >>,
           << Rec(NameA, TypeNS, 60, NameNs) >>,
           << Rec(NameNs, TypeA, 60, Ip2) >>)
GlueNs ==
  MkPacket(4660, 0, << Question(NameA, TypeA) >>, << >>,
           << Rec(NameA, TypeNS, 60, NameNs) >>,
           << Rec(NameAB, TypeTXT, 60, << 1, 97 >>), Rec(NameAB, TypeA, 60, Ip2),
              Rec(NameNs, TypeA, 60, Ip1) >>)
NsOnly ==
  MkPacket(4660, 0, << Question(NameA, TypeA) >>, << >>,
           << Rec(NameA, TypeTXT, 60, << 1 >>), Rec(NameA, TypeNS, 60, NameNs),
              Rec(NameA, TypeNS, 60, NameAB) >>,
           << Rec(NameNs, TypeTXT, 60, << 1 >>) >>)
NoRecords == MkPacket(4660, 0, << Question(NameA, TypeA) >>, << >>, << >>, << >>)
NsAnswer ==
  MkPacket(4660, 0, << Question(NameA, TypeNS) >>,
           << Rec(NameA, TypeNS, 60, NameNs) >>, << >>, << >>)
GlueOnly ==
  MkPacket(4660, 0, << >>, << >>, << >>, << Rec(NameNs, TypeA, 60, Ip1) >>)

\* A delegation as servers write it: the NS record's owner is a pointer to
\* the question's name at offset 12, its data "ns" followed by the same
\* pointer ("ns.a").
CompressedNs ==
  HeaderEncode(MkHeader(4660, 0, 1, 0, 1, 0))
    \o QuestionEncode(Question(NameA, TypeA))
    \o PtrBytes(12) \o U16(TypeNS) \o U16(ClassIN) \o U32(60) \o U16(5)
    \o EncodeLabel(NameNs) \o PtrBytes(12)
\* Its owner's pointer points beyond the message.
BadPointer ==
  HeaderEncode(MkHeader(4660, 0, 0, 1, 0, 0))
    \o PtrBytes(300) \o U16(TypeA) \o U16(ClassIN) \o U32(60) \o U16(4) \o Ip1
\* Its owner's pointer points at itself.
SelfPointer ==
  HeaderEncode(MkHeader(4660, 0, 0, 1, 0, 0))
    \o PtrBytes(12) \o U16(TypeA) \o U16(ClassIN) \o U32(60) \o U16(4) \o Ip1
\* It ends inside the header.
Truncated == << 18, 52, 0, 0, 0 >>

TwoAnswers ==
  MkPacket(4660, 0, << Question(NameA, TypeA) >>,
           << Rec(NameA, TypeTXT, 60, << 1, 97 >>), Rec(NameA, TypeA, 60, Ip2),
              Rec(NameA, TypeA, 60, Ip1) >>,
           << >>, << >>)

Datagrams ==
  {PacketEncode(p) :
     p \in {AnswerGlueNs, GlueNs, NsOnly, NoRecords, NsAnswer, GlueOnly, TwoAnswers}}
    \cup {CompressedNs, BadPointer, SelfPointer, Truncated}

\* Datagrams that arrive behind Truncated: the rest of its header, with one
\* question whose name is a pointer to offset 2, and with the question "a"
\* in plain labels.
PointerTail ==
  << 1, 0, 0, 0, 0, 0, 0 >> \o PtrBytes(2) \o U16(TypeA) \o U16(ClassIN)
PlainTail ==
  << 1, 0, 0, 0, 0, 0, 0 >> \o EncodeName(NameA) \o U16(TypeA) \o U16(ClassIN)
Tails == {PointerTail, PlainTail}

\* pkt.Decode(r, &buf) of SendQuery on the bytes received so far: r reads
\* the connection through the tee that fills buf, a whole datagram with each
\* read.  The decode of each buffer is computed once.
ReplyTable ==
  [d \in Datagrams \cup {Truncated \o t : t \in Tails} |->
     PacketDecode(d, "conn", Seeker(d))]
SendQueryDecode(data) == ReplyTable[data]

\* Whether Resolve, its decode having ended in dec for a question of type
\* typ, calls ResolveDomain.
Nests(dec, typ) ==
  /\ dec.err = "nil"
  /\ ~HasRecord(dec.pkt.Answers, typ)
  /\ ~HasRecord(dec.pkt.Additionals, TypeA)
  /\ HasRecord(dec.pkt.Authorities, TypeNS)

\* ---------------------------------------------------------- resolver actions

\* A caller invokes Resolve(question).
ResolveCall ==
  /\ stack = << >>
  /\ ret.state = "none"
  /\ \E q \in ResolveQuestions : stack' = << Frame(q.Name, q.Type) >>
  /\ UNCHANGED << net, ret, cin, cout, srv, lk >>

\* The top call builds its query and SendQuery writes it to addr.
SendQueryStep ==
  /\ stack # << >>
  /\ Top.pc = "send"
  /\ \E id \in QueryIDs :
       net' = [state |-> "sent", to |-> Top.addr,
               query |-> PacketEncode(BuildQuery(id, Top.name, Top.type, 0)),
               data |-> << >>, first |-> 0]
  /\ stack' = SetTop(stack, [Top EXCEPT !.pc = "wait"])
  /\ UNCHANGED << ret, cin, cout, srv, lk >>

\* A Resolve call returns r with stk its frames below it: the outer call
\* returns to its caller; a nested one returns into ResolveDomain, which
\* passes an error up through the calling Resolve, and otherwise hands the
\* first A answer's ParseIP to the calling Resolve as its next addr.
RECURSIVE Unwind(_, _)

\* The calling Resolve goes on with the addr it had.
UnwindKeepAddr(stk, r) ==
  IF stk = << >> THEN << >>
  ELSE IF r.state # "ok" THEN Unwind(Pop(stk), r)
  ELSE SetTop(stk, [stk[Len(stk)] EXCEPT !.pc = "send"])

\* ResolveDomain with the error of the nested Resolve dropped.
UnwindSwallowError(stk, r) ==
  IF stk = << >> THEN << >>
  ELSE SetTop(stk, [stk[Len(stk)] EXCEPT
         !.addr = JoinHostPort53(ParseIP(FindRecord(r.pkt.Answers, TypeA).Data)),
         !.pc = "send"])

Unwind(stk, r) ==
  IF stk = << >> THEN << >>
  ELSE IF r.state # "ok" THEN Unwind(Pop(stk), r)
  ELSE SetTop(stk, [stk[Len(stk)] EXCEPT
         !.addr = JoinHostPort53(ParseIP(FindRecord(r.pkt.Answers, TypeA).Data)),
         !.pc = "send"])

Return(r) ==
  /\ stack' = Unwind(Pop(stack), r)
  /\ ret' = r

\* ResolveUDPAddr, DialUDP or conn.Write fails.
SendQueryFails ==
  /\ stack # << >>
  /\ Top.pc = "send"
  /\ Return(RetErr("transport"))
  /\ UNCHANGED << net, cin, cout, srv, lk >>

\* The network delivers a datagram to the waiting SendQuery.  A reply that
\* would nest Resolve beyond MaxDepth is not delivered.
Deliver ==
  /\ stack # << >>
  /\ Top.pc = "wait"
  /\ net.state = "sent"
  /\ \E d \in Datagrams :
       /\ Nests(SendQueryDecode(d), Top.type) => Len(stack) < MaxDepth
       /\ net' = [net EXCEPT !.state = "data", !.data = d, !.first = Len(d)]
  /\ UNCHANGED << stack, ret, cin, cout, srv, lk >>

\* The decode needs more bytes than the datagram read held: the next read
\* of the connection returns another datagram, which the tee appends to buf
\* behind the first (SeekBuffer.Write).
DeliverMore ==
  /\ net.state = "data"
  /\ net.first = Len(net.data)
  /\ SendQueryDecode(net.data).err = "Block"
  /\ \E t \in Tails : net' = [net EXCEPT !.data = net.data \o t]
  /\ UNCHANGED << stack, ret, cin, cout, srv, lk >>

\* The read from the connection fails.
ReadFails ==
  /\ stack # << >>
  /\ Top.pc = "wait"
  /\ net.state = "sent"
  /\ net' = [net EXCEPT !.state = "closed"]
  /\ Return(RetErr("transport"))
  /\ UNCHANGED << cin, cout, srv, lk >>

\* The loop body with the glue looked for before the answer.
DecideGlueFirst(pkt) ==
  IF HasRecord(pkt.Additionals, TypeA)
  THEN /\ stack' = SetTop(stack, [Top EXCEPT
            !.addr = JoinHostPort53(ParseIP(FindRecord(pkt.Additionals, TypeA).Data)),
            !.pc = "send"])
       /\ ret' = ret
  ELSE IF HasRecord(pkt.Answers, Top.type) THEN Return(RetOK(pkt))
  ELSE IF ~HasRecord(pkt.Authorities, TypeNS) THEN Return(RetOK(pkt))
  ELSE /\ stack' = Append(SetTop(stack, [Top EXCEPT !.pc = "nested"]),
                          Frame(FindRecord(pkt.Authorities, TypeNS).Data, TypeA))
       /\ ret' = ret

\* The loop body with a reply that neither answers nor delegates turned
\* into an error.
DecideNoAnswerFails(pkt) ==
  IF HasRecord(pkt.Answers, Top.type) THEN Return(RetOK(pkt))
  ELSE IF HasRecord(pkt.Additionals, TypeA)
  THEN /\ stack' = SetTop(stack, [Top EXCEPT
            !.addr = JoinHostPort53(ParseIP(FindRecord(pkt.Additionals, TypeA).Data)),
            !.pc = "send"])
       /\ ret' = ret
  ELSE IF ~HasRecord(pkt.Authorities, TypeNS) THEN Return(RetErr("no answers"))
  ELSE /\ stack' = Append(SetTop(stack, [Top EXCEPT !.pc = "nested"]),
                          Frame(FindRecord(pkt.Authorities, TypeNS).Data, TypeA))
       /\ ret' = ret

\* The loop body with the nested resolution started while the call's own
\* exchange stays open.
DecideFanOut(pkt) ==
  IF HasRecord(pkt.Answers, Top.type) THEN Return(RetOK(pkt))
  ELSE IF HasRecord(pkt.Additionals, TypeA)
  THEN /\ stack' = SetTop(stack, [Top EXCEPT
            !.addr = JoinHostPort53(ParseIP(FindRecord(pkt.Additionals, TypeA).Data)),
            !.pc = "send"])
       /\ ret' = ret
  ELSE IF ~HasRecord(pkt.Authorities, TypeNS) THEN Return(RetOK(pkt))
  ELSE /\ stack' = Append(SetTop(stack, [Top EXCEPT !.pc = "send"]),
                          Frame(FindRecord(pkt.Authorities, TypeNS).Data, TypeA))
       /\ ret' = ret

\* The loop body of Resolve once SendQuery has returned pkt, nil: the choice
\* among answer, glue, delegation and neither.
Decide(pkt) ==
  IF HasRecord(pkt.Answers, Top.type) THEN Return(RetOK(pkt))
  ELSE IF HasRecord(pkt.Additionals, TypeA)
  THEN /\ stack' = SetTop(stack, [Top EXCEPT
            !.addr = JoinHostPort53(ParseIP(FindRecord(pkt.Additionals, TypeA).Data)),
            !.pc = "send"])
       /\ ret' = ret
  ELSE IF ~HasRecord(pkt.Authorities, TypeNS) THEN Return(RetOK(pkt))
  ELSE /\ stack' = Append(SetTop(stack, [Top EXCEPT !.pc = "nested"]),
                          Frame(FindRecord(pkt.Authorities, TypeNS).Data, TypeA))
       /\ ret' = ret

\* SendQuery's decode has ended in dec.  A decode that waits for more bytes
\* or spins does not end; one that exhausts the stack ends the process.
AfterDecode(dec) ==
  /\ dec.err \notin {"Block", "Hang"}
  /\ IF dec.err = "StackOverflow"
     THEN stack' = << >> /\ ret' = [RetNone EXCEPT !.state = "fatal"]
     ELSE IF dec.err # "nil" THEN Return(RetErr(dec.err))
     ELSE Decide(dec.pkt)

\* The rest of SendQuery and of the loop body of Resolve once the reply's
\* bytes are there.
HandleResponse ==
  /\ stack # << >>
  /\ Top.pc = "wait"
  /\ net.state = "data"
  /\ net' = [net EXCEPT !.state = "closed"]
  /\ AfterDecode(SendQueryDecode(net.data))
  /\ UNCHANGED << cin, cout, srv, lk >>

Init ==
  /\ stack = << >>
  /\ net = NetIdle
  /\ ret = RetNone
  /\ cin = CodecIdle
  /\ cout = CodecOut("input", << >>, NoName, NoPkt)
  /\ srv = ServeOff
  /\ lk = LookupOff

Next ==
  \/ ResolveCall
  \/ SendQueryStep
  \/ SendQueryFails
  \/ Deliver
  \/ DeliverMore
  \/ ReadFails
  \/ HandleResponse

Spec == Init /\ [][Next]_vars

\* Resolve runs on and the network goes on delivering or failing.
FairSpec == Spec /\ WF_vars(Next)

\* ------------------------------------------------------------ query server

\* Where inbound datagrams come from ("1", "2"), and the nil *net.UDPAddr
\* of a failed read.
Clients == {<< 49 >>, << 50 >>}
NilAddr == << >>

\* Inbound datagrams: well-formed queries, and datagrams with two
\* questions, with none, cut short inside the header, with a question name
\* that is a pointer to itself, and with a question name that is a pointer
\* to offset 1, where a label longer than the datagram starts.
InboundIDs == {7, 4660}
TwoQuestions ==
  PacketEncode(MkPacket(7, 0, << Question(NameA, TypeA), Question(NameA, TypeNS) >>,
                        << >>, << >>, << >>))
NoQuestion == HeaderEncode(MkHeader(7, 0, 0, 0, 0, 0))
LoopQuery ==
  HeaderEncode(MkHeader(7, 0, 1, 0, 0, 0)) \o PtrBytes(12) \o U16(TypeA) \o U16(ClassIN)
LongLabelQuery ==
  HeaderEncode(MkHeader(4660, 0, 1, 0, 0, 0)) \o PtrBytes(1) \o U16(TypeA)
    \o U16(ClassIN)
Inbound ==
  {PacketEncode(BuildQuery(id, NameA, t, FlagRecusion)) :
     id \in InboundIDs, t \in {TypeA, TypeNS}}
    \cup {TwoQuestions, NoQuestion, Truncated, LoopQuery, LongLabelQuery, << >>}

\* q.Decode(r, &buf) of Serve on data[:n]: r reads the bytes, buf holds
\* them.  The decode of each datagram is computed once.
QueryTable == [d \in Inbound |-> PacketDecode(d, "bytes", Seeker(d))]

\* The packet Serve encodes with the inbound ID left out.
ReplyKeepID(pkt, q) == pkt

\* The packet with its answers taken out and its header left as it was.
ReplyPacketDropAnswers(pkt, q) ==
  [pkt EXCEPT !.Header.ID = q.Header.ID, !.Answers = << >>]

\* pkt.Header.ID = q.Header.ID
ReplyPacket(pkt, q) == [pkt EXCEPT !.Header.ID = q.Header.ID]

\* Serve goes back to ReadFromUDP without a reply.
ServeContinue(d, a, e) ==
  /\ srv' = [pc |-> "recv", err |-> e, from |-> a, query |-> d, reply |-> NoReply]
  /\ UNCHANGED << stack, ret >>

\* Serve calls Resolve(q.Questions[0]).
ServeResolve(d, a, e, q) ==
  /\ srv' = [pc |-> "resolving", err |-> e, from |-> a, query |-> d, reply |-> NoReply]
  /\ stack' = << Frame(q.Questions[1].Name, q.Questions[1].Type) >>
  /\ ret' = RetNone

\* The body with any query of one question or more resolved.
ServeDecodedAnyCount(d, a, e, dec) ==
  IF dec.err \in {"StackOverflow", "Hang"}
  THEN /\ srv' = [pc |-> IF dec.err = "Hang" THEN "hung" ELSE "dead", err |-> e,
                  from |-> a, query |-> d, reply |-> NoReply]
       /\ UNCHANGED << stack, ret >>
  ELSE IF dec.err # "nil" THEN ServeContinue(d, a, e)
  ELSE IF Len(dec.pkt.Questions) < 1 THEN ServeContinue(d, a, e)
  ELSE ServeResolve(d, a, e, dec.pkt)

\* The loop body of Serve from the decode of data[:n] = d, read from a with
\* the read's err e, up to the call of Resolve.  A decode that exhausts the
\* stack ends the process, one that spins never returns.
ServeDecoded(d, a, e, dec) ==
  IF dec.err \in {"StackOverflow", "Hang"}
  THEN /\ srv' = [pc |-> IF dec.err = "Hang" THEN "hung" ELSE "dead", err |-> e,
                  from |-> a, query |-> d, reply |-> NoReply]
       /\ UNCHANGED << stack, ret >>
  ELSE IF dec.err # "nil" THEN ServeContinue(d, a, e)
  ELSE IF Len(dec.pkt.Questions) # 1 THEN ServeContinue(d, a, e)
  ELSE ServeResolve(d, a, e, dec.pkt)

\* ReadFromUDP returns a datagram and Serve works on it.
ServeRead ==
  /\ srv.pc = "recv"
  /\ \E d \in Inbound, a \in Clients : ServeDecoded(d, a, "nil", QueryTable[d])
  /\ UNCHANGED << net, cin, cout, lk >>

\* ReadFromUDP fails (n = 0, addr = nil): Serve prints the error and works
\* on data[:0].
ServeReadFails ==
  /\ srv.pc = "recv"
  /\ ServeDecoded(<< >>, NilAddr, "closed", QueryTable[<< >>])
  /\ UNCHANGED << net, cin, cout, lk >>

\* Resolve has returned into Serve: on an error Serve goes on; otherwise it
\* sets the ID and writes the encoded packet to addr, the write succeeding
\* or not.
ServeReply ==
  /\ srv.pc = "resolving"
  /\ stack = << >>
  /\ ret.state \in {"ok", "err"}
  /\ IF ret.state = "err" THEN srv' = [srv EXCEPT !.pc = "recv"]
     ELSE \E written \in BOOLEAN :
            srv' = [srv EXCEPT
              !.pc = "recv",
              !.reply = IF written
                        THEN [to |-> srv.from,
                              data |-> PacketEncode(
                                ReplyPacket(ret.pkt, QueryTable[srv.query].pkt))]
                        ELSE NoReply]
  /\ UNCHANGED << stack, net, ret, cin, cout, lk >>

ServeInit ==
  /\ stack = << >>
  /\ net = NetIdle
  /\ ret = RetNone
  /\ cin = CodecIdle
  /\ cout = CodecOut("input", << >>, NoName, NoPkt)
  /\ srv = [ServeOff EXCEPT !.pc = "recv"]
  /\ lk = LookupOff

ServeNext ==
  \/ ServeRead
  \/ ServeReadFails
  \/ ServeReply
  \/ SendQueryStep
  \/ SendQueryFails
  \/ Deliver
  \/ DeliverMore
  \/ ReadFails
  \/ HandleResponse

SpecServe == ServeInit /\ [][ServeNext]_vars

\* ------------------------------------------------------------ LookupDomain

\* The servers LookupDomain is pointed at: "8.8.8.8:53" and the root server.
LookupAddrs == {<< 56, 46, 56, 46, 56, 46, 56 >> \o Port53, RootAddr}
LookupDomains == {NameA, NameAB, ExampleCom}

\* LookupDomain once SendQuery has returned pkt, nil, with the zero Record's
\* data formatted when there is no A answer.
LookupResultAnyRecord(pkt) ==
  [err |-> "nil", ip |-> ParseIP(FindRecord(pkt.Answers, TypeA).Data)]

\* LookupDomain once SendQuery has returned pkt, nil.
LookupResult(pkt) ==
  IF ~HasRecord(pkt.Answers, TypeA) THEN [err |-> "no answers", ip |-> << >>]
  ELSE [err |-> "nil", ip |-> ParseIP(FindRecord(pkt.Answers, TypeA).Data)]

LookupDone(r) == lk' = [lk EXCEPT !.pc = "done", !.err = r.err, !.ip = r.ip]

\* LookupDomain(addr, domain) builds its query and SendQuery writes it.
LookupCall ==
  /\ lk.pc = "idle"
  /\ \E addr \in LookupAddrs, domain \in LookupDomains, id \in QueryIDs :
       /\ lk' = [lk EXCEPT !.pc = "wait", !.addr = addr, !.domain = domain]
       /\ net' = [state |-> "sent", to |-> addr,
                  query |-> PacketEncode(BuildQuery(id, domain, TypeA, FlagRecusion)),
                  data |-> << >>, first |-> 0]
  /\ UNCHANGED << stack, ret, cin, cout, srv >>

\* ResolveUDPAddr, DialUDP or conn.Write of its SendQuery fails.
LookupSendFails ==
  /\ lk.pc = "idle"
  /\ \E addr \in LookupAddrs, domain \in LookupDomains :
       lk' = [lk EXCEPT !.pc = "done", !.addr = addr, !.domain = domain,
                        !.err = "transport"]
  /\ UNCHANGED << stack, net, ret, cin, cout, srv >>

\* The network delivers a datagram to its SendQuery.
LookupDeliver ==
  /\ lk.pc = "wait"
  /\ net.state = "sent"
  /\ \E d \in Datagrams :
       net' = [net EXCEPT !.state = "data", !.data = d, !.first = Len(d)]
  /\ UNCHANGED << stack, ret, cin, cout, srv, lk >>

\* The read from the connection fails.
LookupReadFails ==
  /\ lk.pc = "wait"
  /\ net.state = "sent"
  /\ net' = [net EXCEPT !.state = "closed"]
  /\ LookupDone([err |-> "transport", ip |-> << >>])
  /\ UNCHANGED << stack, ret, cin, cout, srv >>

\* The rest of LookupDomain once SendQuery's decode has ended in dec.
LookupAfterDecode(dec) ==
  /\ dec.err \notin {"Block", "Hang"}
  /\ IF dec.err = "StackOverflow" THEN lk' = [lk EXCEPT !.pc = "dead"]
     ELSE IF dec.err # "nil" THEN LookupDone([err |-> dec.err, ip |-> << >>])
     ELSE LookupDone(LookupResult(dec.pkt))

LookupResponse ==
  /\ lk.pc = "wait"
  /\ net.state = "data"
  /\ net' = [net EXCEPT !.state = "closed"]
  /\ LookupAfterDecode(SendQueryDecode(net.data))
  /\ UNCHANGED << stack, ret, cin, cout, srv >>

LookupInit ==
  /\ stack = << >>
  /\ net = NetIdle
  /\ ret = RetNone
  /\ cin = CodecIdle
  /\ cout = CodecOut("input", << >>, NoName, NoPkt)
  /\ srv = ServeOff
  /\ lk = [LookupOff EXCEPT !.pc = "idle"]

LookupNext ==
  \/ LookupCall
  \/ LookupSendFails
  \/ LookupDeliver
  \/ DeliverMore
  \/ LookupReadFails
  \/ LookupResponse

SpecLookup == LookupInit /\ [][LookupNext]_vars

\* ------------------------------------------------------------ resolver claims

AnyOfType(recs, typ) == \E i \in 1..Len(recs) : recs[i].Type = typ
FirstOfType(recs, typ) ==
  recs[CHOOSE i \in 1..Len(recs) :
         recs[i].Type = typ /\ \A j \in 1..(i - 1) : recs[j].Type # typ]

\* The address, as text, of the A data the servers hand out; ":53" for no
\* data.
AddrOf(data) ==
  CASE data = Ip1 -> << 49, 48, 46, 48, 46, 48, 46, 49, 58, 53, 51 >>
    [] data = Ip2 ->
         << 49, 57, 50, 46, 49, 54, 56, 46, 49, 46, 50, 53, 53, 58, 53, 51 >>
    [] data = << >> -> << 58, 53, 51 >>
    [] OTHER -> << 63 >>

\* The top call is about to decode the reply to its query.
Handling == stack # << >> /\ Top.pc = "wait" /\ net.state = "data"
\* The reply it decodes.
Resp == SendQueryDecode(net.data)

\* The queries a call with this question may write.
QueriesFor(name, typ) ==
  {PacketEncode([Header |-> MkHeader(id, 0, 1, 0, 0, 0),
                 Questions |-> << [Name |-> name, Type |-> typ, Class |-> 1] >>,
                 Answers |-> << >>, Authorities |-> << >>, Additionals |-> << >>]) :
     id \in QueryIDs}

\* The frames below the returning call are as they were.
RestKept(n) == \A i \in 1..n : stack'[i] = stack[i]

\* The top call writes a query: to its addr, for its own question.
SendsToAddr ==
  stack # << >> /\ Top.pc = "send" /\ net'.state = "sent"
    => /\ net'.to = Top.addr
       /\ net'.query \in QueriesFor(Top.name, Top.type)
       /\ stack' = SetTop(stack, [Top EXCEPT !.pc = "wait"])

\* C1: when the decoded reply has an Answer of the question's Type, Resolve
\* returns that packet with no error and sends no further query, whatever
\* the Additionals and Authorities hold.
C1_AnswerReturned ==
  [][Handling /\ Resp.err = "nil" /\ AnyOfType(Resp.pkt.Answers, Top.type)
       => /\ ret' = [state |-> "ok", err |-> "nil", pkt |-> Resp.pkt]
          /\ Len(stack') = Len(stack) - 1
          /\ RestKept(Len(stack) - 2)
          /\ net'.state = "closed"]_vars

\* The outer call has returned the root server's reply, which carries an A
\* answer, an NS authority and an A additional, to its A question.
C1_Witness ==
  /\ stack = << >>
  /\ ret = [state |-> "ok", err |-> "nil", pkt |-> AnswerGlueNs]
  /\ net.to = RootAddr /\ net.query \in QueriesFor(NameA, TypeA)
  /\ net.data = PacketEncode(AnswerGlueNs)

\* C2: when the reply has no Answer of the asked Type but an A record in
\* Additionals and an NS record in Authorities, Resolve starts no nested
\* resolution and sends its next query to the first A additional's address,
\* port 53.
C2_GlueBeforeNs ==
  /\ [][Handling /\ Resp.err = "nil" /\ ~AnyOfType(Resp.pkt.Answers, Top.type)
          /\ AnyOfType(Resp.pkt.Additionals, TypeA)
          /\ AnyOfType(Resp.pkt.Authorities, TypeNS)
          => /\ stack' = SetTop(stack, [Top EXCEPT
                  !.addr = AddrOf(FirstOfType(Resp.pkt.Additionals, TypeA).Data),
                  !.pc = "send"])
             /\ ret' = ret]_vars
  /\ [][SendsToAddr]_vars

\* The outer call, after a reply whose Additionals are a TXT record and the
\* A records 192.168.1.255 and 10.0.0.1 and whose Authorities hold an NS
\* record, stands before its next query, to 192.168.1.255:53.
C2_Witness ==
  /\ Len(stack) = 1 /\ Top.pc = "send"
  /\ net.state = "closed" /\ net.data = PacketEncode(GlueNs)
  /\ Top.addr = AddrOf(Ip2)

\* C3: when the reply has no Answer of the asked Type and no A additional
\* but an NS authority, Resolve runs a nested resolution of the first NS
\* record's target with Type A from the root server, sends nothing itself
\* until that has returned, and then queries, for its own question, the
\* address the nested resolution's first A answer gives, port 53.
C3_NestedNsResolution ==
  /\ [][Handling /\ Resp.err = "nil" /\ ~AnyOfType(Resp.pkt.Answers, Top.type)
          /\ ~AnyOfType(Resp.pkt.Additionals, TypeA)
          /\ AnyOfType(Resp.pkt.Authorities, TypeNS)
          => /\ stack' = Append(SetTop(stack, [Top EXCEPT !.pc = "nested"]),
                                [name |-> FirstOfType(Resp.pkt.Authorities, TypeNS).Data,
                                 type |-> 1, addr |-> RootAddr, pc |-> "send"])
             /\ ret' = ret
             /\ net'.state = "closed"]_vars
  /\ [](\A i \in 1..(Len(stack) - 1) : stack[i].pc = "nested")
  /\ [][Len(stack) >= 2 /\ Len(stack') < Len(stack) /\ ret'.state = "ok"
          => stack' = SetTop(Pop(stack), [stack[Len(stack) - 1] EXCEPT
               !.addr = AddrOf(IF AnyOfType(ret'.pkt.Answers, TypeA)
                               THEN FirstOfType(ret'.pkt.Answers, TypeA).Data
                               ELSE << >>),
               !.pc = "send"])]_vars
  /\ [][SendsToAddr]_vars

\* The nested resolution of "ns" has returned a reply with the A answer
\* 10.0.0.1 and the outer call, still asking for "a", stands before its
\* next query, to 10.0.0.1:53.
C3_Witness ==
  /\ Len(stack) = 1 /\ Top.pc = "send" /\ Top.name = NameA
  /\ net.state = "closed" /\ net.query \in QueriesFor(NameNs, TypeA)
  /\ ret.state = "ok" /\ ret.pkt = AnswerGlueNs
  /\ Top.addr = AddrOf(Ip1)

\* C4: when the reply has no Answer of the asked Type, no A additional and
\* no NS authority, Resolve returns that packet unchanged with a nil error.
C4_NoDelegationReturned ==
  [][Handling /\ Resp.err = "nil" /\ ~AnyOfType(Resp.pkt.Answers, Top.type)
       /\ ~AnyOfType(Resp.pkt.Additionals, TypeA)
       /\ ~AnyOfType(Resp.pkt.Authorities, TypeNS)
       => /\ ret' = [state |-> "ok", err |-> "nil", pkt |-> Resp.pkt]
          /\ Len(stack') = Len(stack) - 1
          /\ RestKept(Len(stack) - 2)
          /\ net'.state = "closed"]_vars

\* The outer call has returned, without error, a reply to its A question
\* whose only record is an NS answer.
C4_Witness ==
  /\ stack = << >>
  /\ ret = [state |-> "ok", err |-> "nil", pkt |-> NsAnswer]
  /\ net.query \in QueriesFor(NameA, TypeA)
  /\ net.data = PacketEncode(NsAnswer)

\* The outer call has returned.
Returned == stack = << >> /\ ret.state # "none"
\* The running SendQuery waits for bytes the server has not sent.
Waiting ==
  Handling /\ Resp.err \in {"Block", "Hang"}

\* C5 (as claimed): Resolve always ends: once a call has been made, it
\* returns (with a ResolutionLoopError when the servers keep delegating),
\* unless a server leaves it waiting for bytes.
C5_ResolveTerminates == <>(Returned \/ Waiting)

\* C19: within one top-level Resolve call at most one query is outstanding:
\* only the innermost call has an exchange open, every call below it stands
\* inside ResolveDomain and sends nothing, and a query is written only when
\* the exchange before it is over (decoded or failed).
C19_OneQueryOutstanding ==
  /\ [](/\ \A i \in 1..(Len(stack) - 1) : stack[i].pc \notin {"send", "wait"}
        /\ net.state \in {"sent", "data"} <=> (stack # << >> /\ Top.pc = "wait"))
  /\ [][net'.state = "sent"
          => /\ net.state \in {"idle", "closed"}
             /\ stack # << >> /\ Top.pc = "send"
             /\ Len(stack') = Len(stack)
             /\ \A i \in 1..(Len(stack) - 1) : stack'[i] = stack[i]]_vars
  /\ [][net.state \in {"sent", "data"} /\ net'.state \notin {"sent", "data"}
          => net'.state = "closed"]_vars

\* The nested resolution of "ns" waits for the reply to its query while the
\* outer call stands inside ResolveDomain.
C19_Witness ==
  /\ Len(stack) = 2 /\ stack[1].pc = "nested" /\ stack[1].name = NameA
  /\ Top.pc = "wait" /\ Top.name = NameNs
  /\ net.state = "sent" /\ net.query \in QueriesFor(NameNs, TypeA)

\* SendQuery of the top call returns an error in this step.
DecodeFails == Handling /\ Resp.err \notin {"nil", "Block", "Hang", "StackOverflow"}

\* C20: an error of SendQuery (transport or decode), in the outer call or
\* in a nested resolution, ends the whole resolution: every call returns,
\* the outer one with that error and no packet, and no query follows.
C20_ErrorsEndResolution ==
  /\ [][DecodeFails
          => /\ stack' = << >>
             /\ ret' = [state |-> "err", err |-> Resp.err, pkt |-> ZeroPacket]
             /\ net'.state = "closed"]_vars
  /\ [][ret'.state = "err" /\ (ret' # ret \/ stack' # stack)
          => stack' = << >> /\ ret'.pkt = ZeroPacket /\ net'.state # "sent"]_vars
  /\ [][stack # << >> /\ ret'.state = "ok" => ~DecodeFails]_vars
  /\ [][ret.state = "err" => net' = net /\ stack' = stack]_vars

\* The nested resolution of "ns" got a reply whose pointer points beyond
\* the message, and the outer call has returned that decode error.
C20_Witness ==
  /\ stack = << >> /\ ret.state = "err" /\ ret.err = "SeekOutOfBounds"
  /\ ret.pkt = ZeroPacket
  /\ net.state = "closed" /\ net.data = BadPointer
  /\ net.query \in QueriesFor(NameNs, TypeA)

\* The smaller of two numbers.
Min(a, b) == IF a < b THEN a ELSE b

\* C25: every query a Resolve call writes, whatever the iteration and the
\* server, is a packet of exactly one question with that call's name and
\* type and class IN, under a header with the flags (recursion desired
\* among them) zero; no step, a nested resolution's least of all, changes
\* the name or type of a running call.
C25_QueryKeepsQuestion ==
  /\ [][net'.state = "sent" /\ net.state # "sent"
          => /\ stack # << >>
             /\ net'.query \in QueriesFor(Top.name, Top.type)
             /\ SubSeq(net'.query, 3, 12) = << 0, 0, 0, 1, 0, 0, 0, 0, 0, 0 >>
             /\ From(net'.query, 12) =
                  EncodeName(Top.name) \o << 0, Top.type, 0, 1 >>]_vars
  /\ [][\A i \in 1..Min(Len(stack), Len(stack')) :
          stack'[i].name = stack[i].name /\ stack'[i].type = stack[i].type]_vars

\* The outer call, back from the nested resolution of "ns", has written its
\* next query, for "a" and type A as before, to the address that resolution
\* gave.
C25_Witness ==
  /\ Len(stack) = 1 /\ Top.pc = "wait" /\ Top.name = NameA /\ Top.type = 1
  /\ ret.state = "ok" /\ ret.pkt = AnswerGlueNs
  /\ net.state = "sent" /\ net.to = AddrOf(Ip1)
  /\ From(net.query, 12) = << 1, 97, 0, 0, 1, 0, 1 >>

\* C27 (as claimed): every address Resolve writes a query to is the root
\* server's or the dotted-decimal text of an A record's 4 data bytes, on
\* port 53; never one with an empty host.
C27_AddressesAreIPv4 ==
  net.state # "idle" => net.to \in {RootAddr, AddrOf(Ip1), AddrOf(Ip2)}

\* A pointer's lead byte stands at offset i of s.
PointerAt(s, i) == i + 2 <= Len(s) /\ s[i + 1] >= PointerBits

\* C26 (as claimed): the buffer a message's pointers are resolved in holds
\* only the bytes of that message: when SendQuery's decode has returned a
\* packet whose question name, at offset 12, is a pointer that arrived in a
\* later datagram than the first, the pointer's target lies in that
\* datagram too, never among the bytes of the datagram read before it.
C26_PointerReadsOwnDatagram ==
  Handling /\ Resp.err = "nil" /\ Len(Resp.pkt.Questions) >= 1
    /\ net.first <= 12 /\ PointerAt(net.data, 12)
    => (net.data[13] - PointerBits) * 256 + net.data[14] >= net.first

\* ------------------------------------------------------------ codec claims

Decoded(op) == cin.op = op /\ cout.stage = "decoded"

\* C6 (as claimed): for every valid Packet p, Packet.Decode of
\* Packet.Encode(p) succeeds and yields p: the same header and the same
\* questions, answers, authorities and additionals in the same order.
C6_PacketRoundTrip ==
  Decoded("packet") => cout.pdec.err = "nil" /\ cout.pdec.pkt = cin.pkt

\* C7 (as claimed): for every name whose dot-separated labels are each at
\* most 63 bytes long, DecodeName of EncodeName(n), without a backing
\* buffer, succeeds and returns n.
C7_NameRoundTripAnyLabels ==
  Decoded("name") /\ (\A l \in Labels(cin.name) : Len(l) <= MaxLabel)
    => cout.dec.err = "nil" /\ cout.dec.name = cin.name

\* C7 (amended): for every name whose dot-separated labels are each between
\* 1 and 63 bytes long, and for the empty name, DecodeName of EncodeName(n),
\* without a backing buffer, succeeds and returns n.
C7_NameRoundTrip ==
  Decoded("name") /\ (WellFormed(cin.name) \/ cin.name = << >>)
    => cout.dec.err = "nil" /\ cout.dec.name = cin.name

\* A two-label name with a label of the full 63 bytes has been encoded and
\* decoded back.
C7_Witness ==
  /\ Decoded("name")
  /\ cin.name = Rep(97, MaxLabel) \o << Dot, 98 >>
  /\ cout.wire = << MaxLabel >> \o Rep(97, MaxLabel) \o << 1, 98, 0 >>
  /\ cout.dec.name = cin.name

\* The offset of the first lead byte, from pos on, that is no plain label
\* length and no terminator; -1 when the plain labels end the name or the
\* stream first.
RECURSIVE LeadAfterLabels(_, _)
LeadAfterLabels(s, pos) ==
  IF pos >= Len(s) THEN -1
  ELSE IF s[pos + 1] = 0 THEN -1
  ELSE IF s[pos + 1] > MaxLabel THEN pos
  ELSE IF pos + 1 + s[pos + 1] > Len(s) THEN -1
  ELSE LeadAfterLabels(s, pos + 1 + s[pos + 1])

\* ((b & 0x3F) << 8) | b2 for a lead byte b with its top two bits set.
Target(b, b2) == (b - PointerBits) * 256 + b2

\* C8: a compression pointer b, b2 makes DecodeName resume at offset
\* ((b & 0x3F) << 8) | b2 of the backing buffer, append the name found
\* there, dot-joined after the plain labels already read, and end the name
\* two bytes after the lead byte; a pointer to offset k of a buffer holding
\* the labels of n at k decodes to n.
C8_PointerDecode ==
  /\ Decoded("ptr") /\ (WellFormed(cin.name) \/ cin.name = << >>)
       => /\ cout.dec.err = "nil"
          /\ cout.dec.name = JoinDots(cin.pre \o << cin.name >>)
          /\ cout.dec.pos = Len(cout.wire)
  /\ Decoded("raw") /\ cin.rs
       => LET p == LeadAfterLabels(cout.wire, cin.pos)
              t == Target(cout.wire[p + 1], cout.wire[p + 2])
              there == DecodeName(cout.wire, "seek", t, Seeker(cout.wire))
              before == DecodeName(SubSeq(cout.wire, 1, p) \o << 0 >>, "bytes",
                                   cin.pos, NoSeeker)
          IN  p >= 0 /\ p + 1 < Len(cout.wire) /\ cout.wire[p + 1] >= PointerBits
                /\ t < Len(cout.wire)
                => /\ cout.dec.err = there.err
                   /\ there.err = "nil"
                        => /\ cout.dec.name = AppendPart(before.name, there.name)
                           /\ cout.dec.pos = p + 2

\* The name "a.b" stored at offset 300 was reached through the pointer
\* c1 2c that follows the plain labels "b" and "aa".
C8_Witness ==
  /\ Decoded("ptr")
  /\ cin.name = NameAB /\ cin.pos = 300 /\ cin.pre = << << 98 >>, << 97, 97 >> >>
  /\ SubSeq(cout.wire, Len(cout.wire) - 1, Len(cout.wire)) = << 193, 44 >>
  /\ cout.dec.name = << 98, Dot, 97, 97, Dot, 97, Dot, 98 >>

\* C9: DecodeName fails, returning no name, when it meets a compression
\* pointer and has no backing buffer, or when the pointer's offset is not
\* smaller than the number of bytes the backing buffer holds.
C9_PointerErrors ==
  Decoded("raw")
    => LET p == LeadAfterLabels(cout.wire, cin.pos)
       IN  /\ p >= 0 /\ cout.wire[p + 1] >= PointerBits /\ ~cin.rs
                => cout.dec.err = "NoSeeker" /\ cout.dec.name = << >>
           /\ p >= 0 /\ cout.wire[p + 1] >= PointerBits /\ cin.rs
                /\ p + 1 < Len(cout.wire)
                /\ Target(cout.wire[p + 1], cout.wire[p + 2]) >= Len(cout.wire)
                => cout.dec.err = "SeekOutOfBounds" /\ cout.dec.name = << >>

\* A pointer to offset 97 of a 4-byte message, met after a plain label, has
\* been refused.
C9_Witness ==
  /\ Decoded("raw") /\ cin.rs
  /\ cout.wire = << 1, 97, PointerBits, 97 >> /\ cin.pos = 0
  /\ cout.dec.err = "SeekOutOfBounds"

\* C10 (as claimed): DecodeName ends on every input: a pointer to itself,
\* forward, or into a cycle of pointers makes the decode return an error
\* instead of following pointers without end.
C10_PointerCycleFails ==
  Decoded("raw") => cout.dec.err # "StackOverflow"

\* The name has been through EncodeName.
Encoded(op) == cin.op = op /\ cout.stage # "input"

\* C11 (as claimed): EncodeName fails, producing no wire bytes, whenever a
\* dot-separated label of the name is longer than 63 bytes.
C11_LongLabelRejected ==
  Encoded("name") /\ (\E l \in Labels(cin.name) : Len(l) > MaxLabel)
    => cout.wire = << >>

\* The two bytes of a 16-bit value, the high one first.
Hi(n) == n \div 256
Lo(n) == n % 256

\* C12: BuildQuery(id, domain, type, flags).Encode() is the 12-byte header
\* (id, flags, one question, no records), then EncodeName(domain), the type
\* and the class IN, all big-endian and nothing else; id 17611,
\* "example.com", type A, recursion desired gives the bytes of the claim.
C12_BuildQueryEncoding ==
  Encoded("query")
    => /\ cout.wire =
            << Hi(cin.id), Lo(cin.id), Hi(cin.flags), Lo(cin.flags),
               0, 1, 0, 0, 0, 0, 0, 0 >>
              \o EncodeName(cin.name) \o << Hi(cin.typ), Lo(cin.typ), 0, 1 >>
       /\ cin.id = 17611 /\ cin.name = ExampleCom /\ cin.typ = 1 /\ cin.flags = 256
            => cout.wire =
                 << 68, 203, 1, 0, 0, 1, 0, 0, 0, 0, 0, 0,
                    7, 101, 120, 97, 109, 112, 108, 101, 3, 99, 111, 109, 0,
                    0, 1, 0, 1 >>

\* The query for "example.com" of the claim has been built and encoded.
C12_Witness ==
  /\ Encoded("query")
  /\ cin.id = 17611 /\ cin.name = ExampleCom /\ cin.typ = 1 /\ cin.flags = 256
  /\ Len(cout.wire) = 29 /\ cout.wire[1] = 68 /\ cout.wire[13] = 7

\* The six fields of a header in wire order.
FieldsOf(h) ==
  << h.ID, h.Flags, h.NumQuestions, h.NumAnswers, h.NumAuthorities,
     h.NumAdditionals >>

\* C13: Header.Encode(h) is 12 bytes holding ID, Flags, NumQuestions,
\* NumAnswers, NumAuthorities, NumAdditionals in that order, each 16 bits
\* big-endian, and Header.Decode of those bytes yields h; ID 0x1314 with one
\* question is 13 14 00 00 00 01 00 00 00 00 00 00.
C13_HeaderRoundTrip ==
  /\ Encoded("header")
       => /\ Len(cout.wire) = 12
          /\ \A k \in 1..6 :
               /\ cout.wire[2 * k - 1] = Hi(FieldsOf(cin.hdr)[k])
               /\ cout.wire[2 * k] = Lo(FieldsOf(cin.hdr)[k])
          /\ cin.hdr = MkHeader(4884, 0, 1, 0, 0, 0)
               => cout.wire = << 19, 20, 0, 0, 0, 1, 0, 0, 0, 0, 0, 0 >>
  /\ Decoded("header")
       => cout.hdec.err = "nil" /\ cout.hdec.val = cin.hdr /\ cout.hdec.pos = 12

\* A header with six different fields has been encoded and decoded back.
C13_Witness ==
  /\ Decoded("header")
  /\ cin.hdr = MkHeader(4884, 65535, 1, 0, 65535, 4884)
  /\ cout.wire = << 19, 20, 255, 255, 0, 1, 0, 0, 255, 255, 19, 20 >>
  /\ cout.hdec.val = cin.hdr

\* C14: a successful Packet.Decode has read the header and then as many
\* questions, answers, authorities and additionals as the header counts
\* say, in that order: the decoded packet's header is the message's first
\* 12 bytes and its four sections have the header's four lengths.
C14_SectionCounts ==
  cin.op \in {"packet", "wire"} /\ cout.stage = "decoded" /\ cout.pdec.err = "nil"
    => /\ cout.pdec.pkt.Header = HeaderDecode(cout.wire, "bytes", 0).val
       /\ Len(cout.pdec.pkt.Questions) = cout.pdec.pkt.Header.NumQuestions
       /\ Len(cout.pdec.pkt.Answers) = cout.pdec.pkt.Header.NumAnswers
       /\ Len(cout.pdec.pkt.Authorities) = cout.pdec.pkt.Header.NumAuthorities
       /\ Len(cout.pdec.pkt.Additionals) = cout.pdec.pkt.Header.NumAdditionals
       /\ cout.pdec.pos <= Len(cout.wire)

\* A message of one question and four records under a header that counts
\* one entry per section has been decoded: its second record is read as the
\* authority, its third as the additional, and its last is left unread.
C14_Witness ==
  /\ Decoded("wire") /\ cout.pdec.err = "nil"
  /\ cout.pdec.pkt.Header = MkHeader(4660, 0, 1, 1, 1, 1)
  /\ cout.pdec.pkt.Questions = FullPacket.Questions
  /\ cout.pdec.pkt.Answers = << FullPacket.Answers[1] >>
  /\ cout.pdec.pkt.Authorities = << FullPacket.Answers[2] >>
  /\ cout.pdec.pkt.Additionals = FullPacket.Authorities
  /\ cout.pdec.pos < Len(cout.wire)

\* C21 (as claimed): a failed Packet.Decode leaves nothing of what it had
\* decoded before the failure in the Packet of its caller.
C21_NoPartialPacket ==
  cin.op \in {"packet", "wire"} /\ cout.stage = "decoded" /\ cout.pdec.err # "nil"
    => cout.pdec.pkt = ZeroPacket

\* C23 (as claimed): a decode from an in-memory input that ends before the
\* name is complete returns an error: it neither returns a name nor goes on
\* reading the exhausted input for ever.
C23_TruncatedNameFails ==
  Decoded("raw") /\ cin.kind = "bytes" => cout.dec.err # "Hang"

\* C24 (as claimed): a lead byte whose top two bits are 01 or 10 is never
\* followed as a compression pointer: without a backing buffer the decode
\* does not fail for want of one, and with one it does not seek.
C24_OnlyTopBits11Point ==
  Decoded("raw") /\ cin.buf \in LeadBufs
    => /\ cout.dec.err \notin {"NoSeeker", "SeekOutOfBounds", "StackOverflow"}
       /\ cout.dec.err = "nil" => cout.dec.name # JoinDots(<< << 98 >>, << 97 >> >>)
                                  /\ cout.dec.name # << 97 >>

\* C28: following a pointer leaves the main stream where the pointer ends:
\* DecodeName returns with the reader just behind the plain labels and the
\* pointer's two bytes, the fields behind a name that ends in a pointer are
\* read from there, and every pointer to an offset of the backing buffer
\* finds the same bytes there, whatever was read through it before.
C28_PointerKeepsStream ==
  /\ Decoded("raw") /\ cin.rs /\ cout.dec.err = "nil"
       /\ LeadAfterLabels(cout.wire, cin.pos) >= 0
       => cout.dec.pos = LeadAfterLabels(cout.wire, cin.pos) + 2
  /\ Decoded("wire") /\ cin.buf = ThreePointers
       => /\ cout.pdec.err = "nil"
          /\ cout.pdec.pos = Len(cout.wire)
          /\ cout.pdec.pkt.Questions = << [Name |-> << 97 >>, Type |-> 1, Class |-> 1] >>
          /\ cout.pdec.pkt.Answers =
               << [Name |-> << 97 >>, Type |-> 1, Class |-> 1, TTL |-> 60,
                   Data |-> << 10, 0, 0, 1 >>] >>
          /\ cout.pdec.pkt.Authorities =
               << [Name |-> << 98, 46, 97 >>, Type |-> 2, Class |-> 1, TTL |-> 70000,
                   Data |-> << 110, 115, 46, 97 >>] >>
          /\ cout.pdec.pkt.Additionals = << >>

\* The message with three pointers to offset 12 has been decoded from a
\* connection, each name behind a pointer ending in "a".
C28_Witness ==
  /\ Decoded("wire") /\ cin.buf = ThreePointers /\ cin.kind = "conn"
  /\ cout.pdec.err = "nil"
  /\ cout.pdec.pkt.Answers[1].Name = << 97 >>
  /\ cout.pdec.pkt.Authorities[1].Data = << 110, 115, 46, 97 >>

\* ------------------------------------------------------ query server claims

\* The query Serve is working on, as Packet.Decode read it.
Inq == QueryTable[srv.query].pkt

\* Serve writes a reply in this step.
Replies == srv'.reply # NoReply /\ srv'.reply # srv.reply

\* C15: every reply Serve sends goes to the address the query's datagram
\* came from and carries the query's transaction ID; but for Header.ID the
\* packet encoded is the one Resolve returned, and Resolve was called with
\* the query's single question.
C15_ReplyIdAndAddress ==
  /\ [][Replies
          => /\ srv.pc = "resolving" /\ ret.state = "ok"
             /\ srv'.reply.to = srv.from /\ srv.from \in Clients
             /\ SubSeq(srv'.reply.data, 1, 2) = SubSeq(srv.query, 1, 2)
             /\ srv'.reply.data =
                  PacketEncode([Header |-> [ret.pkt.Header EXCEPT !.ID = Inq.Header.ID],
                                Questions |-> ret.pkt.Questions,
                                Answers |-> ret.pkt.Answers,
                                Authorities |-> ret.pkt.Authorities,
                                Additionals |-> ret.pkt.Additionals])]_vars
  /\ [][srv.pc = "recv" /\ srv'.pc = "resolving"
          => /\ Len(QueryTable[srv'.query].pkt.Questions) = 1
             /\ stack' = << [name |-> QueryTable[srv'.query].pkt.Questions[1].Name,
                             type |-> QueryTable[srv'.query].pkt.Questions[1].Type,
                             addr |-> RootAddr, pc |-> "send"] >>]_vars

\* The query with ID 7 for the NS records of "a", sent by client "2", has
\* been answered with the packet a server returned under ID 4660.
C15_Witness ==
  /\ srv.pc = "recv" /\ srv.from = << 50 >>
  /\ srv.query = PacketEncode(BuildQuery(7, NameA, TypeNS, FlagRecusion))
  /\ ret = [state |-> "ok", err |-> "nil", pkt |-> NsAnswer]
  /\ srv.reply = [to |-> << 50 >>,
                  data |-> << 0, 7 >> \o From(PacketEncode(NsAnswer), 2)]

\* Packet.Decode of the datagram read in this step returns an error, or a
\* packet whose questions are not exactly one.
Refused(d) ==
  \/ QueryTable[d].err \notin {"nil", "StackOverflow", "Hang"}
  \/ QueryTable[d].err = "nil" /\ Len(QueryTable[d].pkt.Questions) # 1

\* C16: for a datagram whose decode returns an error, or whose questions
\* are not exactly one, Serve starts no resolution, sends nothing and is
\* back at its read; when the resolution returns an error, Serve sends no
\* reply and is back at its read.
C16_BadQuerySkipped ==
  /\ [][srv.pc = "recv" /\ srv' # srv /\ Refused(srv'.query)
          => /\ srv'.pc = "recv" /\ srv'.reply = NoReply
             /\ stack' = << >> /\ net' = net /\ ret' = ret]_vars
  /\ [][srv.pc = "resolving" /\ stack = << >> /\ ret.state = "err"
          => /\ srv'.pc = "recv" /\ srv'.reply = NoReply
             /\ stack' = << >> /\ net' = net]_vars
  /\ [][srv.pc = "resolving" /\ srv'.pc # "resolving"
          => srv'.pc = "recv" /\ stack = << >> /\ ret.state \in {"ok", "err"}]_vars

\* A datagram with two questions has been read after a query whose
\* resolution had failed, and Serve is at its read with nothing sent.
C16_Witness ==
  /\ srv.pc = "recv" /\ srv.query = TwoQuestions /\ srv.from \in Clients
  /\ ret.state = "err" /\ srv.reply = NoReply /\ stack = << >>

\* Each header count is the length of its section.
CountsMatch(p) ==
  /\ p.Header.NumQuestions = Len(p.Questions)
  /\ p.Header.NumAnswers = Len(p.Answers)
  /\ p.Header.NumAuthorities = Len(p.Authorities)
  /\ p.Header.NumAdditionals = Len(p.Additionals)

\* The four counts a datagram carries in its header.
WireCounts(d) == << GetU16(d, 4), GetU16(d, 6), GetU16(d, 8), GetU16(d, 10) >>

\* C22: every Packet the program encodes has each header count equal to
\* the length of its section when Packet.Encode is called: the queries
\* SendQuery writes count their one question and nothing else, and the
\* replies Serve writes are packets Resolve returned, whose counts are their
\* sections' lengths.
C22_EncodedCountsMatch ==
  /\ [](ret.state = "ok" => CountsMatch(ret.pkt))
  /\ [][Replies
          => /\ CountsMatch(ReplyPacket(ret.pkt, Inq))
             /\ srv'.reply.data = PacketEncode(ReplyPacket(ret.pkt, Inq))
             /\ WireCounts(srv'.reply.data) =
                  << Len(ret.pkt.Questions), Len(ret.pkt.Answers),
                     Len(ret.pkt.Authorities), Len(ret.pkt.Additionals) >>]_vars
  /\ [][net'.state = "sent" /\ net.state # "sent"
          => /\ \E id \in QueryIDs :
                  /\ net'.query = PacketEncode(BuildQuery(id, Top.name, Top.type, 0))
                  /\ CountsMatch(BuildQuery(id, Top.name, Top.type, 0))
             /\ WireCounts(net'.query) = << 1, 0, 0, 0 >>
             /\ Len(net'.query) = 12 + Len(EncodeName(Top.name)) + 4]_vars

\* Serve has written a reply with one entry in each of its four sections,
\* after the one-question query that asked for it went to the root server.
C22_Witness ==
  /\ srv.pc = "recv" /\ srv.reply # NoReply
  /\ ret.state = "ok" /\ ret.pkt = AnswerGlueNs
  /\ WireCounts(srv.reply.data) = << 1, 1, 1, 1 >>
  /\ net.to = RootAddr /\ WireCounts(net.query) = << 1, 0, 0, 0 >>

\* C17 (as claimed): once a read from the socket has failed, Serve has
\* returned: it works on no datagram and reads no more.
C17_ReadFailureEndsServe == srv.err # "nil" => srv.pc = "returned"

\* -------------------------------------------------------- LookupDomain claims

\* The dotted-decimal text of the A data the servers hand out.
IpText(data) ==
  CASE data = Ip1 -> << 49, 48, 46, 48, 46, 48, 46, 49 >>
    [] data = Ip2 -> << 49, 57, 50, 46, 49, 54, 56, 46, 49, 46, 50, 53, 53 >>
    [] OTHER -> << 63 >>

\* The queries LookupDomain may write for a domain: one question of type A
\* and class IN under a header with the recursion-desired flag.
LookupQueries(domain) ==
  {PacketEncode([Header |-> MkHeader(id, 256, 1, 0, 0, 0),
                 Questions |-> << [Name |-> domain, Type |-> 1, Class |-> 1] >>,
                 Answers |-> << >>, Authorities |-> << >>, Additionals |-> << >>]) :
     id \in QueryIDs}

\* C18: LookupDomain writes one query, of type A with recursion desired, to
\* the server it was given, and none after it; from the decoded reply it
\* returns its first A answer's 4 data bytes in dotted decimal, and an
\* error when the Answers hold no A record.
C18_LookupOneQuery ==
  /\ [](lk.pc \in {"wait", "done", "dead"} /\ net.state # "idle"
          => net.to = lk.addr /\ net.query \in LookupQueries(lk.domain))
  /\ [][net'.state = "sent" \/ net'.query # net.query \/ net'.to # net.to
          => lk.pc = "idle" /\ lk'.pc = "wait" /\ net.state = "idle"]_vars
  /\ [][lk.pc = "wait" /\ net.state = "data" /\ Resp.err = "nil"
          => /\ lk'.pc = "done"
             /\ IF AnyOfType(Resp.pkt.Answers, 1)
                THEN /\ lk'.err = "nil"
                     /\ lk'.ip = IpText(FirstOfType(Resp.pkt.Answers, 1).Data)
                ELSE lk'.err # "nil" /\ lk'.ip = << >>]_vars

\* LookupDomain("8.8.8.8:53", "example.com") has returned 192.168.1.255,
\* the first of the reply's two A answers, which follow a TXT answer.
C18_Witness ==
  /\ lk.pc = "done" /\ lk.err = "nil" /\ lk.domain = ExampleCom
  /\ lk.addr = << 56, 46, 56, 46, 56, 46, 56, 58, 53, 51 >>
  /\ net.to = lk.addr /\ net.data = PacketEncode(TwoAnswers)
  /\ lk.ip = << 49, 57, 50, 46, 49, 54, 56, 46, 49, 46, 50, 53, 53 >>

====
